---------------------------- MODULE Spec2Model ----------------------------
(***************************************************************************)
(* A model of the GQA / RefCOCOg data and training glue:                   *)
(*   src/src/tasks/refcocog.py          RefCOCOg.train, save, load         *)
(*   src/src/tasks/gqa_data_patches.py  GQADataset, GQABufferLoader,       *)
(*                                      GQATorchDataset, GQAEvaluator      *)
(* Each component has its own specification over the shared variables; the *)
(* variables of the components a specification does not exercise are       *)
(* parked at fixed values.                                                 *)
(*                                                                         *)
(* Python values are modelled as follows.  A str is a TLA+ string, a list  *)
(* a sequence, a dict with insertion order a sequence of <<key, value>>    *)
(* pairs with distinct keys, a dict whose order is irrelevant a function.  *)
(* A float score is an integer count of 1/ScoreScale units, so 1.0 is      *)
(* ScoreScale; a mean is kept as the exact pair (sum, count).              *)
(***************************************************************************)
EXTENDS Integers, Sequences, FiniteSets, TLC

(* ------------------------------ bounds -------------------------------- *)
MaxEpochs == 2
MaxBatches == 2
MaxDim == 4
MaxScore == 2
MaxKeys == 3
MaxRequests == 3
MaxVocab == 2
MaxData == 2
\* A score is a count of 1/ScoreScale units: ScoreScale is the score 1.0.
ScoreScale == 2

VARIABLES
  \* RefCOCOg.train
  pc, args_epochs, nBatches, weakly_supervise, valid_tuple,
  epoch, batch, best_valid, pred_boxes, logitDim, targetDim,
  err, ops, optimSteps, scores, saved,
  \* RefCOCOg.load
  ldpc, checkpoint, state_dict, keys, received,
  \* gqa_buffer_loader (GQABufferLoader) and its calls to load_patches
  key2data, loaderCalls, requests,
  \* GQADataset: the two vocabulary files and the outcome of __init__
  vpc, ans2label, label2ans, vresult,
  \* GQATorchDataset over a GQADataset
  tpc, args_tiny, args_fast, dset_name, raw_data, patches, imgid2img, data, item,
  \* GQAEvaluator.evaluate
  epc, quesid2ans, evalResult

varsTrain == <<pc, args_epochs, nBatches, weakly_supervise, valid_tuple,
               epoch, batch, best_valid, pred_boxes, logitDim, targetDim,
               err, ops, optimSteps, scores, saved>>

varsLoad == <<ldpc, checkpoint, state_dict, keys, received>>

varsBuf == <<key2data, loaderCalls, requests>>

varsVocab == <<vpc, ans2label, label2ans, vresult>>

varsTorch == <<tpc, args_tiny, args_fast, dset_name, raw_data, patches, imgid2img,
               data, item>>

varsEval == <<epc, quesid2ans, evalResult>>

vars == <<varsTrain, varsLoad, varsBuf, varsVocab, varsTorch, varsEval>>

\* What each component's steps leave alone.
othersTrain == <<varsLoad, varsBuf, varsVocab, varsTorch, varsEval>>
othersLoad == <<varsTrain, varsBuf, varsVocab, varsTorch, varsEval>>
othersBuf == <<varsTrain, varsLoad, varsVocab, varsTorch, varsEval>>
othersVocab == <<varsTrain, varsLoad, varsBuf, varsTorch, varsEval>>
othersTorch == <<varsTrain, varsLoad, varsVocab, varsEval>>
othersEval == <<varsTrain, varsLoad, varsBuf, varsVocab, varsTorch>>

(* A component that a specification does not exercise stays parked. *)
TrainParked ==
  /\ pc = "idle" /\ args_epochs = 0 /\ nBatches = 0
  /\ weakly_supervise = FALSE /\ valid_tuple = FALSE
  /\ epoch = 0 /\ batch = 0 /\ best_valid = 0 /\ pred_boxes = "unbound"
  /\ logitDim = 0 /\ targetDim = 0 /\ err = "none" /\ ops = <<>>
  /\ optimSteps = 0 /\ scores = <<>> /\ saved = <<>>

LoadParked ==
  /\ ldpc = "idle" /\ checkpoint = <<>> /\ state_dict = <<>>
  /\ keys = <<>> /\ received = <<>>

BufParked == key2data = <<>> /\ loaderCalls = <<>> /\ requests = <<>>

VocabParked ==
  vpc = "idle" /\ ans2label = <<>> /\ label2ans = <<>> /\ vresult = "none"

TorchParked ==
  /\ tpc = "idle" /\ args_tiny = FALSE /\ args_fast = FALSE /\ dset_name = ""
  /\ raw_data = <<>> /\ patches = <<>> /\ imgid2img = <<>> /\ data = <<>>
  /\ item = [kind |-> "none"]

EvalParked ==
  epc = "idle" /\ quesid2ans = <<>> /\ evalResult = [kind |-> "none"]

(* ------------------------------ helpers ------------------------------- *)
Range(s) == {s[i] : i \in 1..Len(s)}

MaxOf(S) == CHOOSE m \in S : \A x \in S : x <= m

IsPrefix(s, t) == Len(s) <= Len(t) /\ \A i \in 1..Len(s) : s[i] = t[i]

(* ------------------------- Python str and dict ------------------------ *)
\* s[i:j] of a str, 0-based and half-open as in Python, for 0 <= i <= j
Slice(s, i, j) == SubSeq(s, i + 1, j)

\* pat in s
PyIn(pat, s) ==
  \E i \in 0..(Len(s) - Len(pat)) : Slice(s, i, i + Len(pat)) = pat

\* s.startswith(p)
PyStartsWith(s, p) == Len(p) <= Len(s) /\ Slice(s, 0, Len(p)) = p

\* s.replace(old, new): every non-overlapping occurrence, left to right
RECURSIVE PyReplace(_, _, _)
PyReplace(s, old, new) ==
  IF Len(s) < Len(old) THEN s
  ELSE IF Slice(s, 0, Len(old)) = old
         THEN new \o PyReplace(Slice(s, Len(old), Len(s)), old, new)
         ELSE Slice(s, 0, 1) \o PyReplace(Slice(s, 1, Len(s)), old, new)

\* A dict in insertion order: a sequence of <<key, value>>, keys distinct.
DictKeys(d) == [i \in 1..Len(d) |-> d[i][1]]
DictHas(d, k) == \E i \in 1..Len(d) : d[i][1] = k
DictGet(d, k) == d[CHOOSE i \in 1..Len(d) : d[i][1] = k][2]
\* d.pop(k): the dict without k
DictPop(d, k) == SelectSeq(d, LAMBDA e : e[1] # k)
\* d[k] = v: in place when k is present, appended otherwise
DictSet(d, k, v) ==
  IF DictHas(d, k)
    THEN [i \in 1..Len(d) |-> IF d[i][1] = k THEN <<k, v>> ELSE d[i]]
    ELSE Append(d, <<k, v>>)

(***************************************************************************)
(*                           RefCOCOg.load                                 *)
(***************************************************************************)
\* Parameter names a checkpoint may hold: the DataParallel prefix on the
\* whole model, the wrapper inside a submodule, plain names, and a name in
\* which deleting ".module" leaves another ".module".
KeyPool ==
  {"module.w", "enc.module.w", "enc.w", "w", "enc..modulemodule.w"}

\* The parameter names of self.model.
ModelParams == {"enc.w", "w", "head.b"}

RECURSIVE DistinctSeqs(_, _)
\* The sequences of at most n distinct elements of S.
DistinctSeqs(S, n) ==
  IF n = 0 THEN {<<>>}
  ELSE {<<>>} \cup
       UNION {{<<x>> \o t : t \in DistinctSeqs(S \ {x}, n - 1)} : x \in S}

\* Checkpoints: at most MaxKeys entries, the i-th holding tensor i.
Checkpoints ==
  {[i \in 1..Len(ks) |-> <<ks[i], i>>] : ks \in DistinctSeqs(KeyPool, MaxKeys)}

LoadInit ==
  /\ checkpoint \in Checkpoints
  /\ ldpc = "TorchLoad"
  /\ state_dict = <<>> /\ keys = <<>> /\ received = <<>>

\* A mutant of NeedsRename: the "module." prefix is what is looked for.
NeedsRenamePrefix(key) == PyStartsWith(key, "module.")

\* line 226: if '.module' in key
NeedsRename(key) == PyIn(".module", key)

\* line 227: key.replace('.module', '')
NewKey(key) == PyReplace(key, ".module", "")

\* line 228: strict=False
Strict == FALSE

DictKeysSet(d) == {d[i][1] : i \in 1..Len(d)}

\* line 224-225: state_dict = torch.load(...); list(state_dict.keys())
TorchLoad ==
  /\ ldpc = "TorchLoad"
  /\ state_dict' = checkpoint
  /\ keys' = DictKeys(checkpoint)
  /\ ldpc' = "RenameLoop"
  /\ UNCHANGED <<checkpoint, received>>
  /\ UNCHANGED othersLoad

\* line 225-227: one iteration of the loop over the listed keys;
\* state_dict[new] = state_dict.pop(key) pops first, then stores
RenameLoop ==
  /\ ldpc = "RenameLoop"
  /\ keys # <<>>
  /\ LET key == Head(keys) IN
       /\ state_dict' =
            IF NeedsRename(key)
              THEN DictSet(DictPop(state_dict, key), NewKey(key),
                           DictGet(state_dict, key))
              ELSE state_dict
       /\ keys' = Tail(keys)
  /\ UNCHANGED <<ldpc, checkpoint, received>>
  /\ UNCHANGED othersLoad

\* line 228: self.model.load_state_dict(state_dict, strict=False): the model
\* is handed state_dict; keys it lacks or does not know raise nothing
LoadStateDict ==
  /\ ldpc = "RenameLoop"
  /\ keys = <<>>
  /\ received' = state_dict
  /\ ldpc' = IF Strict /\ DictKeysSet(state_dict) # ModelParams
              THEN "aborted" ELSE "loaded"
  /\ UNCHANGED <<checkpoint, state_dict, keys>>
  /\ UNCHANGED othersLoad

NextLoad == TorchLoad \/ RenameLoop \/ LoadStateDict

InitLoad ==
  LoadInit /\ TrainParked /\ BufParked /\ VocabParked /\ TorchParked /\ EvalParked

SpecLoad == InitLoad /\ [][NextLoad]_vars

(* -------------------------- claims on load --------------------------- *)
HasInfix(k) == PyIn(".module", k)
Stripped(k) == PyReplace(k, ".module", "")
CkKey(i) == checkpoint[i][1]
CkVal(i) == checkpoint[i][2]
\* The checkpoint entries whose key holds ".module" and strips to n.
StripTo(n) ==
  {j \in 1..Len(checkpoint) : HasInfix(CkKey(j)) /\ Stripped(CkKey(j)) = n}

\* C3 as stated: a key starting with "module." reaches the model with the
\* prefix removed and its value, every other key reaches it unchanged, and
\* no entry is lost or overwritten.
C3_PrefixStripped ==
  ldpc = "loaded" =>
    /\ \A i \in 1..Len(checkpoint) :
         LET k == CkKey(i)
             n == IF PyStartsWith(k, "module.") THEN Slice(k, 7, Len(k)) ELSE k
         IN  DictHas(received, n) /\ DictGet(received, n) = CkVal(i)
    /\ Len(received) = Len(checkpoint)

\* C3 as amended: load renames by the substring ".module", not by the prefix
\* "module.".  A key without ".module" (one that only starts with "module."
\* too) reaches the model under its own name, with its own value unless a
\* renamed key takes that name.  A key holding ".module" reaches the model
\* only as the name of another renamed key; when its name with every
\* ".module" deleted holds no further ".module", the model receives that
\* name, carrying the value of the last checkpoint entry that strips to it
\* (none of those entries being itself the target of a rename).  The model
\* receives nothing else, entries whose names coincide after the renaming
\* are lost, and the load never aborts on missing or unexpected keys.
C3_InfixStripped ==
  /\ ldpc # "aborted"
  /\ ldpc = "loaded" =>
       /\ \A i \in 1..Len(checkpoint) :
            LET k == CkKey(i)
                n == Stripped(k)
            IN  IF ~HasInfix(k)
                  THEN /\ DictHas(received, k)
                       /\ DictGet(received, k) = CkVal(i) \/ StripTo(k) # {}
                  ELSE /\ DictHas(received, k) => StripTo(k) # {}
                       /\ (~HasInfix(n) /\ \A j \in StripTo(n) :
                                             StripTo(CkKey(j)) = {})
                            => /\ DictHas(received, n)
                               /\ DictGet(received, n) =
                                    CkVal(MaxOf(StripTo(n)))
       /\ \A r \in DictKeysSet(received) :
            \/ \E i \in 1..Len(checkpoint) : CkKey(i) = r /\ ~HasInfix(r)
            \/ StripTo(r) # {}
       /\ Len(received) <= Len(checkpoint)

\* C3 witness: a load has handed over "module.w" under its own name, has
\* renamed "enc.module.w" onto the entry "enc.w" and so lost one entry, and
\* was not stopped by the unexpected key or by the missing "head.b".
C3_Witness ==
  /\ ldpc = "loaded"
  /\ DictKeysSet(checkpoint) = {"module.w", "enc.module.w", "enc.w"}
  /\ DictKeysSet(received) = {"module.w", "enc.w"}
  /\ DictGet(received, "enc.w") = DictGet(checkpoint, "enc.module.w")
  /\ DictGet(received, "module.w") = DictGet(checkpoint, "module.w")

(***************************************************************************)
(*                          GQABufferLoader                                *)
(***************************************************************************)
\* gqa_data_patches.py:16-17
TINY_IMG_NUM == 512
FAST_IMG_NUM == 5000

\* One decimal digit as a str.
DigitChar(d) == Slice("0123456789", d, d + 1)

RECURSIVE NatStr(_)
NatStr(n) ==
  IF n < 10 THEN DigitChar(n) ELSE NatStr(n \div 10) \o DigitChar(n % 10)

\* "%d" % n
FormatD(n) == IF n < 0 THEN "-" \o NatStr(-n) ELSE NatStr(n)

\* line 68-73: the storage path of a requested name
PathOf(nm) ==
  IF nm = "testdev" THEN "data/gqa/testdev_patches_32x32.hdf5"
  ELSE IF nm = "valid" THEN "data/gqa/valid_patches_32x32.hdf5"
  ELSE "data/gqa/train_patches_32x32.hdf5"

\* A mutant of KeyOf: the number is left out of the key.
KeyOfPathOnly(path, number) == path

\* line 74: key = "%s_%d" % (path, number)
KeyOf(path, number) == path \o "_" \o FormatD(number)

\* line 76-80: load_patches(path, dataset='gqa', topk=number) reads external
\* storage and returns a new collection: the records read (all of them for
\* -1, at most topk otherwise), identified by the order of the reads
LoadPatches(path, number) ==
  [id |-> Len(loaderCalls) + 1,
   imgs |-> IF number < 0 \/ number >= Len(patches)
              THEN patches ELSE SubSeq(patches, 1, number)]

\* line 67-81: GQABufferLoader.load_data(name, number); what it returns is
\* logged in requests
load_data(nm, number) ==
  LET path == PathOf(nm)
      key == KeyOf(path, number)
  IN  /\ IF key \notin DOMAIN key2data
           THEN /\ key2data' =
                     [k \in DOMAIN key2data \cup {key} |->
                        IF k = key THEN LoadPatches(path, number)
                                   ELSE key2data[k]]
                /\ loaderCalls' =
                     Append(loaderCalls, [path |-> path, topk |-> number])
           ELSE UNCHANGED <<key2data, loaderCalls>>
      /\ requests' = Append(requests,
                            [name |-> nm, number |-> number,
                             returned |-> key2data'[key]])

\* The names and numbers load_data is called with.
RequestNames == {"testdev", "valid", "train", "testdev_all"}
RequestNumbers == {-1, TINY_IMG_NUM, FAST_IMG_NUM}

BufInit == key2data = <<>> /\ loaderCalls = <<>> /\ requests = <<>>

LoadData ==
  /\ Len(requests) < MaxRequests
  /\ \E nm \in RequestNames, number \in RequestNumbers : load_data(nm, number)
  /\ UNCHANGED othersBuf

NextBuf == LoadData

InitBuf ==
  BufInit /\ TrainParked /\ LoadParked /\ VocabParked /\ TorchParked /\ EvalParked

SpecBuf == InitBuf /\ [][NextBuf]_vars

(* --------------------- claims on GQABufferLoader ---------------------- *)
\* The (storage path, number) pair of the i-th request.
PairOf(i) == <<PathOf(requests[i].name), requests[i].number>>
\* The requests that are the first for their pair.
FirstRequests == {i \in 1..Len(requests) : \A j \in 1..(i - 1) : PairOf(j) # PairOf(i)}

\* C4: over any sequence of load_data calls the external loader is invoked
\* once per distinct (storage path, number) pair, on the first request for
\* it; later requests for the pair return the same stored collection;
\* requests differing in path or number never share a collection; and what
\* a request returned is still the entry of key2data (no entry is removed
\* or replaced).
C4_LoadOncePerPair ==
  /\ Len(loaderCalls) = Cardinality(FirstRequests)
  /\ \A i \in FirstRequests :
       LET c == Cardinality({j \in FirstRequests : j <= i})
       IN  /\ loaderCalls[c] = [path |-> PairOf(i)[1], topk |-> PairOf(i)[2]]
           /\ requests[i].returned.id = c
  /\ \A i, j \in 1..Len(requests) :
       (PairOf(i) = PairOf(j)) <=> (requests[i].returned = requests[j].returned)
  /\ Cardinality(DOMAIN key2data) = Cardinality(FirstRequests)
  /\ \A i \in 1..Len(requests) :
       \E k \in DOMAIN key2data : key2data[k] = requests[i].returned

\* C4 witness: ('train', -1), then ('train', 512), then ('train', -1) again:
\* two loads, and the third request returns what the first returned.
C4_Witness ==
  /\ Len(requests) = 3 /\ Len(loaderCalls) = 2
  /\ requests[1].name = "train" /\ requests[1].number = -1
  /\ requests[2].name = "train" /\ requests[2].number = TINY_IMG_NUM
  /\ requests[3] = requests[1]
  /\ requests[2].returned # requests[1].returned

(***************************************************************************)
(*                     GQADataset: the vocabulary                          *)
(***************************************************************************)
VocabAnswers == {"yes", "no"}
\* Label values in the file: list indices in range, out of range, negative.
VocabLabels == (-MaxVocab)..MaxVocab

RECURSIVE Seqs(_, _)
\* The sequences of at most n elements of S.
Seqs(S, n) ==
  IF n = 0 THEN {<<>>}
  ELSE {<<>>} \cup {<<x>> \o t : x \in S, t \in Seqs(S, n - 1)}

\* trainval_ans2label.json: a dict answer -> label, in file order.
Ans2LabelFiles ==
  UNION {{[i \in 1..Len(ks) |-> <<ks[i], ls[i]>>] :
            ls \in [1..Len(ks) -> VocabLabels]} :
         ks \in DistinctSeqs(VocabAnswers, MaxVocab)}

\* trainval_label2ans.json: a list of answers.
Label2AnsFiles == Seqs(VocabAnswers, MaxVocab)

\* l[i] of a Python list: a negative index counts from the end
PyIndexOK(l, i) == -Len(l) <= i /\ i < Len(l)
PyGetItem(l, i) == IF i >= 0 THEN l[i + 1] ELSE l[Len(l) + i + 1]

RECURSIVE CheckItems(_, _)
\* line 52-53: for ans, label in ans2label.items(): assert label2ans[label] == ans
CheckItems(items, l2a) ==
  IF items = <<>> THEN "ok"
  ELSE LET ans == Head(items)[1]
           label == Head(items)[2]
       IN  IF ~PyIndexOK(l2a, label) THEN "IndexError"
           ELSE IF PyGetItem(l2a, label) # ans THEN "AssertionError"
           ELSE CheckItems(Tail(items), l2a)

\* line 49-53: the checks of GQADataset.__init__
VocabCheck(a2l, l2a) ==
  IF Len(a2l) # Len(l2a) THEN "AssertionError" ELSE CheckItems(a2l, l2a)

VocabInit ==
  /\ ans2label \in Ans2LabelFiles
  /\ label2ans \in Label2AnsFiles
  /\ vpc = "new" /\ vresult = "none"

\* line 32-53: GQADataset.__init__, the vocabulary part
DatasetInit ==
  /\ vpc = "new"
  /\ vresult' = VocabCheck(ans2label, label2ans)
  /\ vpc' = IF vresult' = "ok" THEN "built" ELSE "aborted"
  /\ UNCHANGED <<ans2label, label2ans>>
  /\ UNCHANGED othersVocab

NextVocab == DatasetInit

InitVocab ==
  VocabInit /\ TrainParked /\ LoadParked /\ BufParked /\ TorchParked /\ EvalParked

SpecVocab == InitVocab /\ [][NextVocab]_vars

(* ----------------------- claims on the vocabulary --------------------- *)
\* C9: construction aborts whenever the two vocabularies differ in size or
\* some answer does not round-trip; whenever it completes the two mappings
\* are exact inverses: every answer's label is an index of label2ans holding
\* that answer, and every index of label2ans is the label of its answer.
C9_ExactInverses ==
  vpc # "new" =>
    /\ (\/ Len(ans2label) # Len(label2ans)
        \/ \E i \in 1..Len(ans2label) :
             \/ ~PyIndexOK(label2ans, ans2label[i][2])
             \/ PyGetItem(label2ans, ans2label[i][2]) # ans2label[i][1])
         => vpc = "aborted"
    /\ vpc = "built" =>
         /\ \A i \in 1..Len(ans2label) :
              /\ ans2label[i][2] \in 0..(Len(label2ans) - 1)
              /\ label2ans[ans2label[i][2] + 1] = ans2label[i][1]
         /\ \A l \in 0..(Len(label2ans) - 1) :
              /\ DictHas(ans2label, label2ans[l + 1])
              /\ DictGet(ans2label, label2ans[l + 1]) = l

(***************************************************************************)
(*                    GQADataset and GQATorchDataset                       *)
(***************************************************************************)
\* Records of data/gqa/<split>.json: img_id, question_id, sent and, except
\* in unlabelled splits, label: a dict answer -> score in file order.
DatumPool ==
  { [img_id |-> "i1", question_id |-> "q1", sent |-> "s1",
     label |-> << <<"yes", ScoreScale>> >>],
    [img_id |-> "i2", question_id |-> "q2", sent |-> "s2",
     label |-> << <<"no", 1>>, <<"maybe", ScoreScale>> >>],
    [img_id |-> "i3", question_id |-> "q3", sent |-> "s3",
     label |-> << <<"yes", 1>>, <<"no", ScoreScale>> >>],
    [img_id |-> "i1", question_id |-> "q4", sent |-> "s4"] }

\* A record of the feature storage.
ImgRecord(i) == [img_id |-> i, features |-> "features of " \o i]

\* What the feature storage may hold.
PatchFiles ==
  { <<>>,
    <<ImgRecord("i1")>>,
    <<ImgRecord("i2"), ImgRecord("i3")>>,
    <<ImgRecord("i3"), ImgRecord("i1"), ImgRecord("i3")>>,
    <<ImgRecord("i1"), ImgRecord("i2"), ImgRecord("i3")>> }

\* The splits argument of GQADataset.
DatasetNames ==
  {"train", "train,valid", "valid", "testdev", "valid,testdev",
   "testdev_all,train"}

\* Vocabulary file pairs, used when GQADataset.__init__ accepts them.
TorchVocabs ==
  { << << <<"yes", 0>>, <<"no", 1>> >>, <<"yes", "no">> >>,
    << << <<"no", 0>>, <<"yes", -1>> >>, <<"no", "yes">> >>,
    << << <<"yes", 0>> >>, <<"yes">> >> }

RECURSIVE PySplit(_)
\* line 34: splits.split(',')
PySplit(s) ==
  IF ~PyIn(",", s) THEN <<s>>
  ELSE LET i == CHOOSE j \in 0..(Len(s) - 1) :
                  /\ Slice(s, j, j + 1) = ","
                  /\ \A h \in 0..(j - 1) : Slice(s, h, h + 1) # ","
       IN  <<Slice(s, 0, i)>> \o PySplit(Slice(s, i + 1, Len(s)))

\* x in l, for a list l
PyInList(x, l) == \E i \in 1..Len(l) : l[i] = x

\* line 56-57: num_answers
num_answers == Len(ans2label)

\* line 97-102
TopK(tiny, fast) ==
  IF tiny THEN TINY_IMG_NUM ELSE IF fast THEN FAST_IMG_NUM ELSE -1

\* A mutant of SelectLoad: the valid rule is tried before the testdev rule.
SelectLoadValidFirst(splits, topk) ==
  IF PyInList("valid", splits) THEN <<"valid", -1>>
  ELSE IF PyInList("testdev", splits) \/ PyInList("testdev_all", splits)
         THEN <<"testdev", -1>>
  ELSE <<"train", topk>>

\* line 108-113: the arguments of the one load_data call
SelectLoad(splits, topk) ==
  IF PyInList("testdev", splits) \/ PyInList("testdev_all", splits)
    THEN <<"testdev", -1>>
  ELSE IF PyInList("valid", splits) THEN <<"valid", -1>>
  ELSE <<"train", topk>>

RECURSIVE BuildImgid2img(_, _)
\* line 114-116: for img_datum in img_data: imgid2img[img_id] = img_datum
BuildImgid2img(img_data, acc) ==
  IF img_data = <<>> THEN acc
  ELSE LET d == Head(img_data)
       IN  BuildImgid2img(Tail(img_data),
             [k \in DOMAIN acc \cup {d.img_id} |->
                IF k = d.img_id THEN d ELSE acc[k]])

RECURSIVE FilterDataOnePerImage(_, _, _)
\* A mutant of FilterData: one record is kept per image.
FilterDataOnePerImage(raw, i2i, acc) ==
  IF raw = <<>> THEN acc
  ELSE FilterDataOnePerImage(Tail(raw), i2i,
         IF /\ Head(raw).img_id \in DOMAIN i2i
            /\ \A j \in 1..Len(acc) : acc[j].img_id # Head(raw).img_id
           THEN Append(acc, Head(raw)) ELSE acc)

RECURSIVE FilterData(_, _, _)
\* line 119-122: for datum in raw_dataset.data: if datum['img_id'] in
\* imgid2img: self.data.append(datum)
FilterData(raw, i2i, acc) ==
  IF raw = <<>> THEN acc
  ELSE FilterData(Tail(raw), i2i,
         IF Head(raw).img_id \in DOMAIN i2i
           THEN Append(acc, Head(raw)) ELSE acc)

\* A mutant of StoreScore: the slot is set to 1.0 whatever the score.
StoreScoreOne(target, label, score) ==
  [target EXCEPT ![IF label >= 0 THEN label + 1 ELSE Len(target) + label + 1]
                   = ScoreScale]

\* line 157: target[label] = score, on a tensor: a negative index counts
\* from the end
StoreScore(target, label, score) ==
  [target EXCEPT ![IF label >= 0 THEN label + 1 ELSE Len(target) + label + 1]
                   = score]

RECURSIVE Scatter(_, _)
\* line 155-157: for ans, score in label.items(): if ans in ans2label: ...
Scatter(items, target) ==
  IF items = <<>> THEN [kind |-> "tensor", vec |-> target]
  ELSE LET ans == Head(items)[1]
           score == Head(items)[2]
       IN  IF DictHas(ans2label, ans)
             THEN IF PyIndexOK(target, DictGet(ans2label, ans))
                    THEN Scatter(Tail(items),
                                 StoreScore(target, DictGet(ans2label, ans), score))
                    ELSE [kind |-> "IndexError"]
             ELSE Scatter(Tail(items), target)

\* line 129-160: GQATorchDataset.__getitem__(i), 0 <= i < len
GetItemResult(i) ==
  LET datum == data[i + 1]
  IN  IF datum.img_id \notin DOMAIN imgid2img THEN [kind |-> "KeyError"]
      ELSE LET img_info == imgid2img[datum.img_id]
           IN  IF "label" \in DOMAIN datum
                 THEN LET t == Scatter(datum.label,
                                       [p \in 1..num_answers |-> 0])
                      IN  IF t.kind = "IndexError" THEN t
                          ELSE [kind |-> "item",
                                ques_id |-> datum.question_id,
                                feats |-> img_info.features,
                                ques |-> datum.sent,
                                target |-> t.vec]
                 ELSE [kind |-> "item",
                       ques_id |-> datum.question_id,
                       feats |-> img_info.features,
                       ques |-> datum.sent]

\* line 126-127: __len__
TorchLen == Len(data)

\* A GQADataset that __init__ accepted, the flags, an empty buffer.
TorchInit ==
  /\ dset_name \in DatasetNames
  /\ raw_data \in Seqs(DatumPool, MaxData)
  /\ \E v \in TorchVocabs :
       /\ VocabCheck(v[1], v[2]) = "ok"
       /\ ans2label = v[1] /\ label2ans = v[2]
  /\ vpc = "built" /\ vresult = "ok"
  /\ args_tiny \in BOOLEAN /\ args_fast \in BOOLEAN
  /\ patches \in PatchFiles
  /\ tpc = "new" /\ imgid2img = <<>> /\ data = <<>>
  /\ item = [kind |-> "none"]

\* line 93-124: GQATorchDataset.__init__
Construct ==
  /\ tpc = "new"
  /\ LET sel == SelectLoad(PySplit(dset_name), TopK(args_tiny, args_fast))
     IN  load_data(sel[1], sel[2])
  /\ imgid2img' =
       BuildImgid2img(requests'[Len(requests')].returned.imgs, <<>>)
  /\ data' = FilterData(raw_data, imgid2img', <<>>)
  /\ tpc' = "built"
  /\ UNCHANGED <<args_tiny, args_fast, dset_name, raw_data, patches, item>>
  /\ UNCHANGED othersTorch

\* line 129-160: __getitem__(i) for an index of the dataset
GetItem ==
  /\ tpc = "built"
  /\ \E i \in 0..(TorchLen - 1) : item' = GetItemResult(i)
  /\ UNCHANGED <<tpc, args_tiny, args_fast, dset_name, raw_data, patches,
                 imgid2img, data>>
  /\ UNCHANGED varsBuf
  /\ UNCHANGED othersTorch

NextTorch == Construct \/ GetItem

InitTorch == TorchInit /\ BufInit /\ TrainParked /\ LoadParked /\ EvalParked

SpecTorch == InitTorch /\ [][NextTorch]_vars

(* --------------------- claims on GQATorchDataset ---------------------- *)
\* The image ids of the feature records the load returned.
LoadedImgIds ==
  {requests[1].returned.imgs[p].img_id :
     p \in 1..Len(requests[1].returned.imgs)}
\* The positions of the raw records that have a loaded feature record.
Surviving == {i \in 1..Len(raw_data) : raw_data[i].img_id \in LoadedImgIds}

\* C5: after construction the surviving list is exactly the raw records
\* whose img_id has a loaded feature record, in their order and with
\* duplicates kept; __len__ is their number; and __getitem__(i) for
\* 0 <= i < __len__ finds the feature record of its image.
C5_SurvivingRecords ==
  /\ tpc = "built" =>
       /\ TorchLen = Cardinality(Surviving)
       /\ \A i \in Surviving :
            data[Cardinality({j \in Surviving : j <= i})] = raw_data[i]
  /\ item.kind # "none" =>
       /\ item.kind = "item"
       /\ \E i \in Surviving :
            /\ item.ques_id = raw_data[i].question_id
            /\ item.feats = ImgRecord(raw_data[i].img_id).features

\* C5 witness: of two raw records the first has no loaded feature record
\* and is dropped, the second is kept and has been fetched.
C5_Witness ==
  /\ tpc = "built" /\ Len(raw_data) = 2
  /\ raw_data[1].img_id \notin LoadedImgIds
  /\ data = <<raw_data[2]>>
  /\ item.kind = "item" /\ item.ques_id = raw_data[2].question_id

\* C6: construction issues exactly one feature load request: ('testdev', -1)
\* if the split list holds 'testdev' or 'testdev_all'; otherwise ('valid', -1)
\* if it holds 'valid'; otherwise ('train', topk) with topk 512 under tiny,
\* else 5000 under fast, else -1.
C6_LoadRequest ==
  tpc = "built" =>
    LET splits == PySplit(dset_name)
        has(x) == \E i \in 1..Len(splits) : splits[i] = x
    IN  /\ Len(requests) = 1
        /\ Len(loaderCalls) = 1
        /\ requests[1].name =
             (IF has("testdev") \/ has("testdev_all") THEN "testdev"
              ELSE IF has("valid") THEN "valid" ELSE "train")
        /\ requests[1].number =
             (IF has("testdev") \/ has("testdev_all") \/ has("valid") THEN -1
              ELSE IF args_tiny THEN 512
              ELSE IF args_fast THEN 5000 ELSE -1)

\* C6 witness: the split list holds both valid and testdev, and tiny and
\* fast are both set: the one request is ('testdev', -1).
C6_Witness ==
  /\ tpc = "built" /\ dset_name = "valid,testdev"
  /\ args_tiny /\ args_fast
  /\ Len(requests) = 1
  /\ requests[1].name = "testdev" /\ requests[1].number = -1

\* The entries of a label mapping whose answer is in the vocabulary.
KnownEntries(label) ==
  {e \in Range(label) : \E i \in 1..Len(ans2label) : ans2label[i][1] = e[1]}
\* The slot of the target vector that a vocabulary index denotes.
SlotOf(ans) ==
  LET l == DictGet(ans2label, ans)
  IN  IF l >= 0 THEN l + 1 ELSE Len(ans2label) + l + 1

\* C7: for a surviving record with a label mapping the target vector has
\* the length of the vocabulary, holds at the vocabulary index of each of
\* the record's answers that is in the vocabulary that answer's score, and
\* is zero everywhere else; answers absent from the vocabulary add nothing
\* and raise nothing.
C7_TargetVector ==
  /\ item.kind \in {"none", "item"}
  /\ \A d \in Range(data) :
       (item.kind = "item" /\ item.ques_id = d.question_id) =>
         /\ ("target" \in DOMAIN item) <=> ("label" \in DOMAIN d)
         /\ ("label" \in DOMAIN d) =>
              /\ Len(item.target) = Len(ans2label)
              /\ \A p \in 1..Len(item.target) :
                   \/ \E e \in KnownEntries(d.label) :
                        /\ SlotOf(e[1]) = p
                        /\ item.target[p] = e[2] /\ e[2] # 0
                   \/ /\ \A e \in KnownEntries(d.label) : SlotOf(e[1]) # p
                      /\ item.target[p] = 0

\* C7 witness: the record with {"no": 0.5, "maybe": 1.0} under the
\* vocabulary yes, no: the target is <<0, 0.5>>, "maybe" adds nothing.
C7_Witness ==
  /\ item.kind = "item" /\ item.ques_id = "q2"
  /\ DictKeys(ans2label) = <<"yes", "no">>
  /\ item.target = <<0, 1>>

(***************************************************************************)
(*                        GQAEvaluator.evaluate                            *)
(***************************************************************************)
EvalAnswers == {"yes", "no", "maybe"}

RECURSIVE BuildId2datum(_, _)
\* line 43-46: id2datum = {datum['question_id']: datum for datum in data}
BuildId2datum(ds, acc) ==
  IF ds = <<>> THEN acc
  ELSE LET d == Head(ds)
       IN  BuildId2datum(Tail(ds),
             [k \in DOMAIN acc \cup {d.question_id} |->
                IF k = d.question_id THEN d ELSE acc[k]])

id2datum == BuildId2datum(raw_data, <<>>)

\* A mutant of AddScore: a hit counts 1.0 whatever its annotated score.
AddScoreOne(score, label, ans) ==
  IF DictHas(label, ans) THEN score + ScoreScale ELSE score

\* line 172-173: if ans in label: score += label[ans]
AddScore(score, label, ans) ==
  IF DictHas(label, ans) THEN score + DictGet(label, ans) ELSE score

RECURSIVE ScoreLoop(_, _)
\* line 168-173: the loop over quesid2ans.items()
ScoreLoop(items, score) ==
  IF items = <<>> THEN [kind |-> "ok", score |-> score]
  ELSE LET quesid == Head(items)[1]
           ans == Head(items)[2]
       IN  IF quesid \notin DOMAIN id2datum THEN [kind |-> "KeyError"]
           ELSE IF "label" \notin DOMAIN id2datum[quesid]
                  THEN [kind |-> "KeyError"]
           ELSE ScoreLoop(Tail(items),
                          AddScore(score, id2datum[quesid].label, ans))

\* line 167-174: evaluate; the mean score / len(quesid2ans) is kept as the
\* pair (sum, n), and 0.0 / 0 raises
evaluate(q2a) ==
  LET r == ScoreLoop(q2a, 0)
  IN  IF r.kind = "KeyError" THEN r
      ELSE IF Len(q2a) = 0 THEN [kind |-> "ZeroDivisionError"]
      ELSE [kind |-> "ok", sum |-> r.score, n |-> Len(q2a)]

\* The question ids of the dataset.
QuestionIds(ds) == {ds[i].question_id : i \in 1..Len(ds)}

\* A question id that no record of the dataset has.
UnknownQuestionId == "q9"

\* A dataset and a prediction mapping, in dict order, for question ids of
\* the dataset and for one that is not in it.
EvalInit ==
  /\ raw_data \in Seqs(DatumPool, MaxData)
  /\ quesid2ans \in
       UNION {{[i \in 1..Len(qs) |-> <<qs[i], as[i]>>] :
                 as \in [1..Len(qs) -> EvalAnswers]} :
              qs \in DistinctSeqs(QuestionIds(raw_data)
                                    \cup {UnknownQuestionId}, MaxData)}
  /\ epc = "new" /\ evalResult = [kind |-> "none"]
  /\ tpc = "idle" /\ args_tiny = FALSE /\ args_fast = FALSE /\ dset_name = ""
  /\ patches = <<>> /\ imgid2img = <<>> /\ data = <<>>
  /\ item = [kind |-> "none"]

Evaluate ==
  /\ epc = "new"
  /\ evalResult' = evaluate(quesid2ans)
  /\ epc' = "done"
  /\ UNCHANGED quesid2ans
  /\ UNCHANGED othersEval

NextEval == Evaluate

InitEval == EvalInit /\ TrainParked /\ LoadParked /\ BufParked /\ VocabParked

SpecEval == InitEval /\ [][NextEval]_vars

(* ------------------------ claims on evaluate -------------------------- *)
\* The ground-truth label mapping of a question: that of the last record
\* of the dataset with the question id.
GoldLabel(q) ==
  raw_data[MaxOf({i \in 1..Len(raw_data) : raw_data[i].question_id = q})].label
\* What a prediction earns: the annotated score of the predicted answer when
\* it appears in the label mapping, 0 otherwise.
Earned(q, ans) ==
  IF \E e \in Range(GoldLabel(q)) : e[1] = ans
    THEN (CHOOSE e \in Range(GoldLabel(q)) : e[1] = ans)[2] ELSE 0

RECURSIVE SumEarned(_)
SumEarned(P) ==
  IF P = {} THEN 0
  ELSE LET e == CHOOSE x \in P : TRUE
       IN  Earned(e[1], e[2]) + SumEarned(P \ {e})

\* Every predicted question id is that of a labelled record of the dataset.
AllLabelled ==
  \A e \in Range(quesid2ans) :
    \E i \in 1..Len(raw_data) :
      /\ raw_data[i].question_id = e[1]
      /\ \A j \in 1..Len(raw_data) :
           raw_data[j].question_id = e[1] => "label" \in DOMAIN raw_data[j]

\* The mean an evaluation must return for the predictions.
MeanIsRight ==
  /\ evalResult.kind = "ok"
  /\ evalResult.n = Len(quesid2ans)
  /\ evalResult.sum = SumEarned(Range(quesid2ans))
  /\ (\A e \in Range(quesid2ans) : Earned(e[1], e[2]) = ScoreScale)
       => evalResult.sum = evalResult.n * ScoreScale
  /\ (\A e \in Range(quesid2ans) : Earned(e[1], e[2]) = 0)
       => evalResult.sum = 0

\* C8 as stated: for every prediction mapping (over labelled questions of
\* the dataset) evaluate returns the sum of the earned scores divided by the
\* number of predictions: 1.0 when every prediction is a gold answer of
\* score 1.0, 0.0 when no predicted answer appears in its label mapping.
C8_MeanScore == (epc = "done" /\ AllLabelled) => MeanIsRight

\* C8 as amended: for every non-empty prediction mapping over labelled
\* questions of the dataset evaluate returns that mean; for the empty
\* mapping it raises ZeroDivisionError.
C8_MeanScoreNonEmpty ==
  (epc = "done" /\ AllLabelled) =>
    IF quesid2ans # <<>> THEN MeanIsRight
    ELSE evalResult.kind = "ZeroDivisionError"

\* C8 witness: two predictions, one earning the annotated score 0.5 and one
\* absent from its label mapping: the mean is 0.5 / 2.
C8_Witness ==
  /\ epc = "done" /\ AllLabelled /\ Len(quesid2ans) = 2
  /\ evalResult.kind = "ok" /\ evalResult.n = 2 /\ evalResult.sum = 1
  /\ \E e \in Range(quesid2ans) : Earned(e[1], e[2]) = 0

(***************************************************************************)
(*                          RefCOCOg.train                                 *)
(***************************************************************************)
Dims == 1..MaxDim
ValidScores == 0..MaxScore

\* refcocog.py:107  logit.dim() == target.dim() == 2 or ... == 4
DimsOK(l, t) == (l = t /\ t = 2) \/ (l = t /\ t = 4)

\* refcocog.py:218-220  torch.save(state_dict, "<name>.pth"), logged with
\* the number of epochs finished when it is called
save(name) == saved' = Append(saved, [name |-> name, epoch |-> epoch])

\* State on entry to train(): args, the loader's batch count, best_valid = 0.
TrainInit ==
  /\ args_epochs \in 0..MaxEpochs
  /\ nBatches \in 0..MaxBatches
  /\ weakly_supervise \in BOOLEAN
  /\ valid_tuple \in BOOLEAN
  /\ pc = "EpochLoop"
  /\ epoch = 0 /\ batch = 0
  /\ best_valid = 0
  /\ pred_boxes = "unbound"
  /\ logitDim = 0 /\ targetDim = 0
  /\ err = "none" /\ ops = <<>> /\ optimSteps = 0
  /\ scores = <<>> /\ saved = <<>>

cfgTrain == <<args_epochs, nBatches, weakly_supervise, valid_tuple>>

\* line 95-97: for epoch in range(args.epochs): sentid2pbox = {}
EpochLoop ==
  /\ pc = "EpochLoop"
  /\ pc' = IF epoch < args_epochs THEN "BatchLoop" ELSE "SaveLast"
  /\ UNCHANGED othersTrain
  /\ UNCHANGED <<cfgTrain, epoch, batch, best_valid, pred_boxes, logitDim, targetDim,
                 err, ops, optimSteps, scores, saved>>

\* line 98: for i, (sent_id, feats, boxes, sent, target, is_matched) in loader
BatchLoop ==
  /\ pc = "BatchLoop"
  /\ IF batch < nBatches
       THEN /\ \E t \in Dims : targetDim' = t
            /\ pc' = "ZeroGrad"
       ELSE /\ targetDim' = targetDim
            /\ pc' = "TrainEval"
  /\ ops' = <<>>
  /\ UNCHANGED othersTrain
  /\ UNCHANGED <<cfgTrain, epoch, batch, best_valid, pred_boxes, logitDim,
                 err, optimSteps, scores, saved>>

\* line 100-101: self.model.train(); self.optim.zero_grad()
ZeroGrad ==
  /\ pc = "ZeroGrad"
  /\ ops' = Append(ops, "zero_grad")
  /\ pc' = "Forward"
  /\ UNCHANGED othersTrain
  /\ UNCHANGED <<cfgTrain, epoch, batch, best_valid, pred_boxes, logitDim,
                 targetDim, err, optimSteps, scores, saved>>

\* line 103-106: logit, attn_probs = self.model(feats, boxes, sent)
Forward ==
  /\ pc = "Forward"
  /\ \E l \in Dims : logitDim' = l
  /\ ops' = Append(ops, "forward")
  /\ pc' = "AssertDims"
  /\ UNCHANGED othersTrain
  /\ UNCHANGED <<cfgTrain, epoch, batch, best_valid, pred_boxes,
                 targetDim, err, optimSteps, scores, saved>>

\* A mutant of AssertDims: the assertion is dropped.
AssertDimsDropped ==
  /\ pc = "AssertDims"
  /\ ops' = Append(ops, "assert")
  /\ pc' = "Loss" /\ err' = err
  /\ UNCHANGED othersTrain
  /\ UNCHANGED <<cfgTrain, epoch, batch, best_valid, pred_boxes, logitDim,
                 targetDim, optimSteps, scores, saved>>

\* line 107: assert logit.dim() == target.dim() == 2 or ... == 4
AssertDims ==
  /\ pc = "AssertDims"
  /\ ops' = Append(ops, "assert")
  /\ IF DimsOK(logitDim, targetDim)
       THEN pc' = "Loss" /\ err' = err
       ELSE pc' = "aborted" /\ err' = "AssertionError"
  /\ UNCHANGED othersTrain
  /\ UNCHANGED <<cfgTrain, epoch, batch, best_valid, pred_boxes, logitDim,
                 targetDim, optimSteps, scores, saved>>

\* line 109-113: bce_loss(logit, is_matched) if weak, else l1_loss(...).sum()/bs
Loss ==
  /\ pc = "Loss"
  /\ ops' = Append(ops, "loss")
  /\ pc' = "Backward"
  /\ UNCHANGED othersTrain
  /\ UNCHANGED <<cfgTrain, epoch, batch, best_valid, pred_boxes, logitDim,
                 targetDim, err, optimSteps, scores, saved>>

\* line 115: loss.backward()
Backward ==
  /\ pc = "Backward"
  /\ ops' = Append(ops, "backward")
  /\ pc' = "ClipGrad"
  /\ UNCHANGED othersTrain
  /\ UNCHANGED <<cfgTrain, epoch, batch, best_valid, pred_boxes, logitDim,
                 targetDim, err, optimSteps, scores, saved>>

\* line 116: nn.utils.clip_grad_norm_(self.model.parameters(), 5.)
ClipGrad ==
  /\ pc = "ClipGrad"
  /\ ops' = Append(ops, "clip_grad_norm")
  /\ pc' = "OptimStep"
  /\ UNCHANGED othersTrain
  /\ UNCHANGED <<cfgTrain, epoch, batch, best_valid, pred_boxes, logitDim,
                 targetDim, err, optimSteps, scores, saved>>

\* line 117: self.optim.step()
OptimStep ==
  /\ pc = "OptimStep"
  /\ ops' = Append(ops, "step")
  /\ optimSteps' = optimSteps + 1
  /\ pc' = "PredBoxes"
  /\ UNCHANGED othersTrain
  /\ UNCHANGED <<cfgTrain, epoch, batch, best_valid, pred_boxes, logitDim,
                 targetDim, err, scores, saved>>

\* line 119-131: if weak: pass, else: ...; pred_boxes = get_pred_boxes(logit)
PredBoxes ==
  /\ pc = "PredBoxes"
  /\ pred_boxes' = IF weakly_supervise THEN pred_boxes ELSE "bound"
  /\ pc' = "Collect"
  /\ UNCHANGED othersTrain
  /\ UNCHANGED <<cfgTrain, epoch, batch, best_valid, logitDim, targetDim,
                 err, ops, optimSteps, scores, saved>>

\* line 133-134: for sid, pbox in zip(sent_id, pred_boxes...): a read of the
\* local pred_boxes, which raises UnboundLocalError when never assigned
Collect ==
  /\ pc = "Collect"
  /\ IF pred_boxes = "bound"
       THEN /\ batch' = batch + 1
            /\ ops' = <<>>
            /\ pc' = "BatchLoop" /\ err' = err
       ELSE /\ batch' = batch
            /\ ops' = ops
            /\ pc' = "aborted" /\ err' = "UnboundLocalError"
  /\ UNCHANGED othersTrain
  /\ UNCHANGED <<cfgTrain, epoch, best_valid, pred_boxes, logitDim,
                 targetDim, optimSteps, scores, saved>>

\* line 136-139: log_str = ... evaluator.evaluate(sentid2pbox); empty_cache()
TrainEval ==
  /\ pc = "TrainEval"
  /\ pc' = "Validate"
  /\ UNCHANGED othersTrain
  /\ UNCHANGED <<cfgTrain, epoch, batch, best_valid, pred_boxes, logitDim,
                 targetDim, err, ops, optimSteps, scores, saved>>

\* A mutant of Validate: >= in place of >.
ValidateTies ==
  /\ pc = "Validate"
  /\ IF valid_tuple
       THEN \E valid_score \in ValidScores :
              /\ scores' = Append(scores, valid_score)
              /\ IF valid_score >= best_valid
                   THEN best_valid' = valid_score /\ save("BEST")
                   ELSE best_valid' = best_valid /\ saved' = saved
       ELSE UNCHANGED <<scores, best_valid, saved>>
  /\ pc' = "WriteLog"
  /\ UNCHANGED othersTrain
  /\ UNCHANGED <<cfgTrain, epoch, batch, pred_boxes, logitDim, targetDim,
                 err, ops, optimSteps>>

\* line 141-148: if self.valid_tuple is not None: valid_score = evaluate(...);
\*               if valid_score > best_valid: best_valid = ...; save("BEST")
Validate ==
  /\ pc = "Validate"
  /\ IF valid_tuple
       THEN \E valid_score \in ValidScores :
              /\ scores' = Append(scores, valid_score)
              /\ IF valid_score > best_valid
                   THEN best_valid' = valid_score /\ save("BEST")
                   ELSE best_valid' = best_valid /\ saved' = saved
       ELSE UNCHANGED <<scores, best_valid, saved>>
  /\ pc' = "WriteLog"
  /\ UNCHANGED othersTrain
  /\ UNCHANGED <<cfgTrain, epoch, batch, pred_boxes, logitDim, targetDim,
                 err, ops, optimSteps>>

\* line 150-154: print(log_str); append to log.log; the epoch is finished and
\* the next one starts with a fresh iteration of the loader
WriteLog ==
  /\ pc = "WriteLog"
  /\ epoch' = epoch + 1 /\ batch' = 0
  /\ pc' = "EpochLoop"
  /\ UNCHANGED othersTrain
  /\ UNCHANGED <<cfgTrain, best_valid, pred_boxes, logitDim, targetDim,
                 err, ops, optimSteps, scores, saved>>

\* line 156: self.save("LAST")
SaveLast ==
  /\ pc = "SaveLast"
  /\ save("LAST")
  /\ pc' = "done"
  /\ UNCHANGED othersTrain
  /\ UNCHANGED <<cfgTrain, epoch, batch, best_valid, pred_boxes, logitDim,
                 targetDim, err, ops, optimSteps, scores>>

NextTrain ==
  \/ EpochLoop \/ BatchLoop \/ ZeroGrad \/ Forward \/ AssertDims \/ Loss
  \/ Backward \/ ClipGrad \/ OptimStep \/ PredBoxes \/ Collect \/ TrainEval
  \/ Validate \/ WriteLog \/ SaveLast

InitTrain ==
  TrainInit /\ LoadParked /\ BufParked /\ VocabParked /\ TorchParked /\ EvalParked

SpecTrain == InitTrain /\ [][NextTrain]_vars

\* train() runs on the one control thread: a step that can be taken is taken.
FairSpecTrain == SpecTrain /\ WF_vars(NextTrain)

(* ------------------------- claims on train ---------------------------- *)
\* The validation scores of the epochs before epoch e (1-based), and 0.
SeenBefore(e) == {0} \cup {scores[i] : i \in 1..(e - 1)}

\* The saves of BEST made while e - 1 epochs had been finished.
BestSavesAt(e) ==
  {i \in 1..Len(saved) : saved[i] = [name |-> "BEST", epoch |-> e - 1]}

\* C1: with a validation split, BEST is saved after an epoch iff that
\* epoch's validation score is strictly greater than the best so far (once,
\* and never on a tie or on a score of 0); best_valid starts at 0 and after
\* every epoch is the maximum of 0 and all validation scores seen so far.
C1_BestCheckpoint ==
  /\ best_valid = MaxOf({0} \cup Range(scores))
  /\ \A e \in 1..Len(scores) :
       Cardinality(BestSavesAt(e)) =
         IF scores[e] > MaxOf(SeenBefore(e)) THEN 1 ELSE 0
  /\ \A i \in 1..Len(saved) :
       saved[i].name = "BEST" => saved[i].epoch + 1 \in 1..Len(scores)
  /\ (~valid_tuple => scores = <<>>)

\* C1 witness: a second epoch ties the best score of the first, which was
\* saved as BEST, and saves nothing.
C1_Witness ==
  /\ valid_tuple /\ Len(scores) = 2
  /\ scores[1] > 0 /\ scores[2] = scores[1]
  /\ Cardinality(BestSavesAt(1)) = 1 /\ BestSavesAt(2) = {}
  /\ pc = "WriteLog"

LastSaves == {i \in 1..Len(saved) : saved[i].name = "LAST"}

\* C2: every run of train whose batches all pass the dimensionality
\* assertion eventually persists LAST, exactly once and only after the last
\* epoch has finished, for the weak and the non-weak paradigm and with or
\* without a validation split.
C2_LastPersisted ==
  /\ [](\A i \in LastSaves : saved[i].epoch = args_epochs)
  /\ [](Cardinality(LastSaves) <= 1)
  /\ <>(err = "AssertionError" \/ Cardinality(LastSaves) = 1)

BatchOrder ==
  <<"zero_grad", "forward", "assert", "loss", "backward", "clip_grad_norm",
    "step">>

\* C10: every batch runs zero_grad, forward, the dimensionality assertion,
\* loss, backward, clip_grad_norm, optimizer step in that order, with one
\* optimizer step per batch and none between batches; a batch failing the
\* assertion aborts before loss, backward and step, and nothing (no
\* checkpoint, no optimizer step) happens afterwards.
C10_BatchOrder ==
  /\ [](/\ IsPrefix(ops, BatchOrder)
        /\ optimSteps = epoch * nBatches + batch
                          + (IF "step" \in Range(ops) THEN 1 ELSE 0)
        /\ ("loss" \in Range(ops) => DimsOK(logitDim, targetDim))
        /\ (pc \in {"PredBoxes", "Collect"} => ops = BatchOrder)
        /\ (pc \in {"EpochLoop", "TrainEval", "Validate", "WriteLog",
                    "SaveLast", "done"} => ops = <<>>)
        /\ (err = "AssertionError" =>
              /\ pc = "aborted"
              /\ ops = <<"zero_grad", "forward", "assert">>
              /\ ~DimsOK(logitDim, targetDim)
              /\ LastSaves = {}))
  /\ [][err = "AssertionError" => UNCHANGED <<saved, optimSteps, ops>>]_vars

\* C10 witness: a second batch has failed the assertion after a first batch
\* took its optimizer step.
C10_Witness ==
  /\ err = "AssertionError" /\ optimSteps = 1 /\ batch = 1
  /\ ops = <<"zero_grad", "forward", "assert">>

=============================================================================
